---------------------------- MODULE Spec2Model ----------------------------
(***************************************************************************)
(* Model of xbob.db.mobio's query layer (src/xbob/db/mobio/query.py):      *)
(* class Database, its connection state and its query methods, against a   *)
(* small relational store holding the Client, Subworld, Protocol,          *)
(* ProtocolPurpose, File and TModel tables.                                *)
(*                                                                         *)
(* Python values are encoded as records [t, v]:                            *)
(*   None      -> [t |-> "none",   v |-> <<>>]                             *)
(*   a scalar  -> [t |-> "scalar", v |-> <<x>>]                            *)
(*   a tuple   -> [t |-> "seq",    v |-> the sequence]                     *)
(* Strings that are concatenated (paths) are sequences of characters.      *)
(***************************************************************************)
EXTENDS Integers, Sequences, FiniteSets, TLC

VARIABLES artifact, session, store, call

vars == <<artifact, session, store, call>>

-----------------------------------------------------------------------------
(* Bounds of the exploration *)

\* number of File rows of a store
NFiles == 2
\* longest model_ids tuple passed to objects / tobjects / zobjects
MaxModelIds == 2
\* longest ids / paths list passed to paths / reverse
MaxIds == 3

-----------------------------------------------------------------------------
(* Python values *)

None == [t |-> "none", v |-> <<>>]
Scalar(x) == [t |-> "scalar", v |-> <<x>>]
Tuple(s) == [t |-> "seq", v |-> s]
\* a keyword argument the caller leaves out
Omitted == [t |-> "omitted", v |-> <<>>]

\* the value of a parameter whose default is d
Default(x, d) == IF x.t = "omitted" THEN d ELSE x

\* truth value of a Python object: None, '' and the empty tuple are false
Truthy(l) ==
    CASE l.t = "none" -> FALSE
      [] l.t = "scalar" -> l.v[1] # ""
      [] OTHER -> l.v # <<>>

\* x in s, for a tuple or list s
In(x, s) == \E i \in 1..Len(s.v) : s.v[i] = x

Range(s) == {s[i] : i \in 1..Len(s)}

\* sequences over S of length at most n
SeqUpTo(S, n) == UNION {[1..k -> S] : k \in 0..n}

-----------------------------------------------------------------------------
(* Results of a call: a returned value or a raised exception, and the      *)
(* number of queries the call issued against the session.                  *)

NoMsg == [kind |-> "none", obj |-> "", value |-> "", valid |-> <<>>]
Ok(v, n) == [st |-> "ok", val |-> v, msg |-> NoMsg, nq |-> n]
Raise(e, m, n) == [st |-> e, val |-> <<>>, msg |-> m, nq |-> n]

\* the same outcome, with n more queries issued before it
After(n, r) == [r EXCEPT !.nq = @ + n]

-----------------------------------------------------------------------------
(* The store: the tables the queries read *)

SubworldTable ==
    << [id |-> 1, name |-> "onethird"],
       [id |-> 2, name |-> "twothirds"],
       [id |-> 3, name |-> "twothirds-subsampled"] >>

ProtocolTable ==
    << [id |-> 1, name |-> "female"],
       [id |-> 2, name |-> "male"] >>

gender_choices == <<"female", "male">>
group_choices == <<"world", "dev", "eval">>
purpose_choices == <<"enrol", "probe">>

ProtocolPurposeTable ==
    << [protocol |-> "female", sgroup |-> "dev",  purpose |-> "enrol"],
       [protocol |-> "female", sgroup |-> "dev",  purpose |-> "probe"],
       [protocol |-> "female", sgroup |-> "eval", purpose |-> "enrol"],
       [protocol |-> "female", sgroup |-> "eval", purpose |-> "probe"],
       [protocol |-> "male",   sgroup |-> "dev",  purpose |-> "enrol"],
       [protocol |-> "male",   sgroup |-> "dev",  purpose |-> "probe"],
       [protocol |-> "male",   sgroup |-> "eval", purpose |-> "enrol"],
       [protocol |-> "male",   sgroup |-> "eval", purpose |-> "probe"] >>

\* Client rows, indexed by Client.id; subworld is the many-to-many
\* Client.subworld relationship
ClientTable ==
    << [id |-> 1, gender |-> "male",   sgroup |-> "world",
        subworld |-> {"onethird", "twothirds"}],
       [id |-> 2, gender |-> "female", sgroup |-> "world",
        subworld |-> {"twothirds"}],
       [id |-> 3, gender |-> "male",   sgroup |-> "dev",   subworld |-> {}],
       [id |-> 4, gender |-> "female", sgroup |-> "eval",  subworld |-> {}],
       [id |-> 5, gender |-> "male",   sgroup |-> "dev",   subworld |-> {}] >>

\* TModel rows, in TModel.id order
TModelTable ==
    << [id |-> "t1", client_id |-> 1],
       [id |-> "t2", client_id |-> 1],
       [id |-> "t3", client_id |-> 2] >>

\* What a File row can be: its client, the columns it is ordered by, and its
\* File.subworld, File.protocol_purposes (indexes of ProtocolPurposeTable)
\* and File.tmodels relationships
FileProfiles ==
    << [client_id |-> 1, session_id |-> 1, speech_type |-> 1, device |-> 1,
        subworld |-> {"onethird", "twothirds"}, protocol_purposes |-> {},
        tmodels |-> {"t1", "t2"}],
       [client_id |-> 2, session_id |-> 1, speech_type |-> 2, device |-> 1,
        subworld |-> {"twothirds"}, protocol_purposes |-> {},
        tmodels |-> {"t3"}],
       [client_id |-> 3, session_id |-> 2, speech_type |-> 1, device |-> 2,
        subworld |-> {}, protocol_purposes |-> {6}, tmodels |-> {}],
       [client_id |-> 5, session_id |-> 1, speech_type |-> 2, device |-> 1,
        subworld |-> {}, protocol_purposes |-> {5, 6}, tmodels |-> {}],
       [client_id |-> 4, session_id |-> 1, speech_type |-> 1, device |-> 1,
        subworld |-> {}, protocol_purposes |-> {4}, tmodels |-> {}] >>

Digits == <<"1", "2", "3", "4", "5", "6", "7", "8", "9">>

\* the unique path stem of File row i
StemOf(i) == <<"f", Digits[i]>>

\* the File table built from one profile per row; row i has File.id = i
FileRows(choice) ==
    [i \in 1..NFiles |->
        [id |-> i, path |-> StemOf(i), shot_id |-> i,
         client_id |-> FileProfiles[choice[i]].client_id,
         session_id |-> FileProfiles[choice[i]].session_id,
         speech_type |-> FileProfiles[choice[i]].speech_type,
         device |-> FileProfiles[choice[i]].device,
         subworld |-> FileProfiles[choice[i]].subworld,
         protocol_purposes |-> FileProfiles[choice[i]].protocol_purposes,
         tmodels |-> FileProfiles[choice[i]].tmodels]]

\* File ids are labels: the tables are taken up to a renumbering of the rows
Stores ==
    {[subworld |-> SubworldTable, protocol |-> ProtocolTable,
      protocolpurpose |-> ProtocolPurposeTable, client |-> ClientTable,
      tmodel |-> TModelTable, file |-> FileRows(choice)] :
        choice \in {c \in [1..NFiles -> 1..Len(FileProfiles)] :
                      \A i \in 1..(NFiles - 1) : c[i] <= c[i + 1]}}


-----------------------------------------------------------------------------
(* Connection state *)

\* self.session when no session is open
NoSession == "None"
\* what utils.session_try_readonly returns
OpenSession == "open"

\* Database.is_valid
is_valid(s) == s # NoSession

UnavailableMsg ==
    [kind |-> "unavailable", obj |-> "mobio", value |-> "SQLITE_FILE",
     valid |-> <<>>]

\* a mutant of assert_validity: the check is skipped
assert_validity_skipped(s) == Ok(<<>>, 0)

\* Database.assert_validity
assert_validity(s) ==
    IF ~is_valid(s) THEN Raise("RuntimeError", UnavailableMsg, 0)
    ELSE Ok(<<>>, 0)

\* r, and when r returned, what F makes of its value
Then(r, F(_)) == IF r.st # "ok" THEN r ELSE After(r.nq, F(r.val))

-----------------------------------------------------------------------------
(* Input validation *)

InvalidMsg(obj, k, valid) ==
    [kind |-> "invalid", obj |-> obj, value |-> k, valid |-> valid]

\* the first element of l that is not in valid, 0 when there is none
FirstInvalid(l, valid) ==
    LET bad == {i \in 1..Len(l) : l[i] \notin Range(valid)}
    IN  IF bad = {} THEN 0 ELSE CHOOSE i \in bad : \A j \in bad : i <= j

\* a mutant of __check_validity__: a tuple is returned without being checked
check_validity_unchecked(l, obj, valid, default) ==
    IF ~Truthy(l) THEN Ok(default, 0)
    ELSE IF l.t = "scalar" THEN Ok(Tuple(<<l.v[1]>>), 0)
    ELSE Ok(l, 0)

\* Database.__check_validity__
__check_validity__(l, obj, valid, default) ==
    IF ~Truthy(l) THEN Ok(default, 0)
    ELSE LET t == IF l.t = "scalar" THEN Tuple(<<l.v[1]>>) ELSE l
             k == FirstInvalid(t.v, valid)
         IN  IF k # 0 THEN Raise("RuntimeError", InvalidMsg(obj, t.v[k], valid), 0)
             ELSE Ok(t, 0)

-----------------------------------------------------------------------------
(* Queries: the rows a query yields, in ORDER BY order, one row per join   *)
(* match, and their materialisation as a list of entities.                 *)

NoneTypeMsg == [kind |-> "nonetype", obj |-> "query", value |-> "", valid |-> <<>>]

\* self.session.query(...): an attribute access on self.session
query(s, rows) ==
    IF s = NoSession THEN Raise("AttributeError", NoneTypeMsg, 0)
    ELSE Ok(rows, 1)

RECURSIVE UniqueList(_)
UniqueList(rows) ==
    IF rows = <<>> THEN <<>>
    ELSE LET r == UniqueList(SubSeq(rows, 1, Len(rows) - 1))
             x == rows[Len(rows)]
         IN  IF x \in Range(r) THEN r ELSE Append(r, x)

\* a mutant of list_q: every row of the join is kept
list_q_rows(rows) == rows

\* list(q) for a query of one mapped entity: the ORM yields each entity
\* once, at its first row
list_q(rows) == UniqueList(rows)

LexLess(a, b) ==
    \E i \in 1..Len(a) :
        /\ a[i] < b[i]
        /\ \A j \in 1..(i - 1) : a[j] = b[j]

\* the ids of S in ascending order of key
RECURSIVE OrderBy(_, _)
OrderBy(S, key) ==
    IF S = {} THEN <<>>
    ELSE LET m == CHOOSE x \in S : \A y \in S : ~LexLess(key[y], key[x])
         IN  <<m>> \o OrderBy(S \ {m}, key)

RECURSIVE Repeat(_, _)
Repeat(x, n) == IF n = 0 THEN <<>> ELSE <<x>> \o Repeat(x, n - 1)

\* the rows of a join: each id of order, once per match
RECURSIVE JoinRows(_, _)
JoinRows(order, mult) ==
    IF order = <<>> THEN <<>>
    ELSE Repeat(Head(order), mult[Head(order)]) \o JoinRows(Tail(order), mult)

\* the number of Subworld rows a row joins to under Subworld.name.in_(subworld)
SubworldMatches(row, subworld) ==
    Cardinality({n \in row.subworld : In(n, subworld)})


-----------------------------------------------------------------------------
(* Lookups *)

\* Database.groups
groups == group_choices

\* Database.genders
genders == gender_choices

\* Database.purposes
purposes == purpose_choices

\* [str(k.name) for k in l]
Names(l) == [i \in 1..Len(l) |-> l[i].name]

\* Query.one()
one(rows) ==
    IF Len(rows) = 1 THEN Ok(rows[1], 0)
    ELSE IF Len(rows) = 0 THEN Raise("NoResultFound", NoMsg, 0)
    ELSE Raise("MultipleResultsFound", NoMsg, 0)

\* Database.subworlds
subworlds(s, st) ==
    Then(assert_validity(s), LAMBDA u :
    Then(query(s, st.subworld), LAMBDA rows : Ok(list_q(rows), 0)))

\* Database.subworld_names
subworld_names(s, st) ==
    Then(assert_validity(s), LAMBDA u :
    Then(subworlds(s, st), LAMBDA l : Ok(Names(l), 0)))

\* Database.has_subworld
has_subworld(s, st, name) ==
    Then(assert_validity(s), LAMBDA u :
    Then(query(s, SelectSeq(st.subworld, LAMBDA r : r.name = name)),
         LAMBDA rows : Ok(Len(rows) # 0, 0)))

\* Database.protocols
protocols(s, st) ==
    Then(assert_validity(s), LAMBDA u :
    Then(query(s, st.protocol), LAMBDA rows : Ok(list_q(rows), 0)))

\* Database.protocol_names
protocol_names(s, st) ==
    Then(assert_validity(s), LAMBDA u :
    Then(protocols(s, st), LAMBDA l : Ok(Names(l), 0)))

\* Database.has_protocol
has_protocol(s, st, name) ==
    Then(assert_validity(s), LAMBDA u :
    Then(query(s, SelectSeq(st.protocol, LAMBDA r : r.name = name)),
         LAMBDA rows : Ok(Len(rows) # 0, 0)))

\* Database.protocol
protocol(s, st, name) ==
    Then(assert_validity(s), LAMBDA u :
    Then(query(s, SelectSeq(st.protocol, LAMBDA r : r.name = name)),
         LAMBDA rows : one(rows)))

\* Database.protocol_purposes
protocol_purposes(s, st) ==
    Then(assert_validity(s), LAMBDA u :
    Then(query(s, st.protocolpurpose), LAMBDA rows : Ok(list_q(rows), 0)))

\* Database.has_client_id
has_client_id(s, st, id) ==
    Then(assert_validity(s), LAMBDA u :
    Then(query(s, SelectSeq(st.client, LAMBDA r : r.id = id)),
         LAMBDA rows : Ok(Len(rows) # 0, 0)))

\* Database.client
client(s, st, id) ==
    Then(assert_validity(s), LAMBDA u :
    Then(query(s, SelectSeq(st.client, LAMBDA r : r.id = id)),
         LAMBDA rows : one(rows)))

-----------------------------------------------------------------------------
(* Client and model selection *)

\* a mutant of clients_q: protocol does not filter
clients_q_any_protocol(st, protocol_, groups_, subworld, gender) ==
    LET sel == {i \in 1..Len(st.client) :
                  /\ Truthy(groups_) => In(st.client[i].sgroup, groups_)
                  /\ Truthy(gender) => In(st.client[i].gender, gender)}
        mult == [i \in sel |->
                   IF Truthy(subworld)
                   THEN SubworldMatches(st.client[i], subworld) ELSE 1]
        key == [i \in sel |-> <<st.client[i].id>>]
        ord == OrderBy(sel, key)
    IN  [i \in 1..Len(JoinRows(ord, mult)) |-> st.client[JoinRows(ord, mult)[i]].id]

\* the query Database.clients builds from its validated arguments: the ids
\* of the Client rows of the (joined) result, in order
clients_q(st, protocol_, groups_, subworld, gender) ==
    LET sel == {i \in 1..Len(st.client) :
                  /\ Truthy(protocol_) => In(st.client[i].gender, protocol_)
                  /\ Truthy(groups_) => In(st.client[i].sgroup, groups_)
                  /\ Truthy(gender) => In(st.client[i].gender, gender)}
        mult == [i \in sel |->
                   IF Truthy(subworld)
                   THEN SubworldMatches(st.client[i], subworld) ELSE 1]
        key == [i \in sel |-> <<st.client[i].id>>]
        ord == OrderBy(sel, key)
    IN  [i \in 1..Len(JoinRows(ord, mult)) |-> st.client[JoinRows(ord, mult)[i]].id]

\* Database.clients
clients(s, st, protocol_, groups_, subworld, gender) ==
    Then(assert_validity(s), LAMBDA u :
    Then(protocol_names(s, st), LAMBDA VALID_PROTOCOLS :
    Then(subworld_names(s, st), LAMBDA VALID_SUBWORLDS :
    Then(__check_validity__(protocol_, "protocol", VALID_PROTOCOLS, Scalar("")),
         LAMBDA p :
    Then(__check_validity__(groups_, "group", groups, Scalar("")), LAMBDA g :
    Then(__check_validity__(subworld, "subworld", VALID_SUBWORLDS, Scalar("")),
         LAMBDA sw :
    Then(__check_validity__(gender, "gender", genders, Scalar("")), LAMBDA ge :
    Then(query(s, clients_q(st, p, g, sw, ge)),
         LAMBDA rows : Ok(list_q(rows), 0)))))))))

\* a mutant of tclients: the caller's groups are passed on to clients
tclients_groups(s, st, protocol_, groups_, subworld, gender) ==
    Then(protocol_names(s, st), LAMBDA VALID_PROTOCOLS :
    Then(subworld_names(s, st), LAMBDA VALID_SUBWORLDS :
    Then(__check_validity__(protocol_, "protocol", VALID_PROTOCOLS, Scalar("")),
         LAMBDA p :
    Then(__check_validity__(groups_, "group", <<"dev", "eval">>, Scalar("")),
         LAMBDA g :
    Then(__check_validity__(Default(subworld, Scalar("onethird")), "subworld",
                            VALID_SUBWORLDS, Scalar("")),
         LAMBDA sw :
    Then(__check_validity__(gender, "gender", genders, Scalar("")), LAMBDA ge :
    clients(s, st, p, g, sw, ge)))))))

\* Database.tclients
tclients(s, st, protocol_, groups_, subworld, gender) ==
    Then(protocol_names(s, st), LAMBDA VALID_PROTOCOLS :
    Then(subworld_names(s, st), LAMBDA VALID_SUBWORLDS :
    Then(__check_validity__(protocol_, "protocol", VALID_PROTOCOLS, Scalar("")),
         LAMBDA p :
    Then(__check_validity__(groups_, "group", <<"dev", "eval">>, Scalar("")),
         LAMBDA g :
    Then(__check_validity__(Default(subworld, Scalar("onethird")), "subworld",
                            VALID_SUBWORLDS, Scalar("")),
         LAMBDA sw :
    Then(__check_validity__(gender, "gender", genders, Scalar("")), LAMBDA ge :
    clients(s, st, p, Scalar("world"), sw, ge)))))))

\* Database.zclients
zclients(s, st, protocol_, groups_, subworld, gender) ==
    Then(assert_validity(s), LAMBDA u :
    Then(__check_validity__(groups_, "group", <<"dev", "eval">>, Scalar("")),
         LAMBDA g :
    clients(s, st, protocol_, Scalar("world"),
            Default(subworld, Scalar("onethird")), gender)))

\* Database.models
models(s, st, protocol_, groups_, subworld, gender) ==
    clients(s, st, protocol_, groups_, subworld, gender)

\* the query Database.tmodels builds: the ids of the TModel rows of the
\* joined result, in order
tmodels_q(st, subworld, gender) ==
    LET cl(i) == st.client[st.tmodel[i].client_id]
        sel == {i \in 1..Len(st.tmodel) :
                  Truthy(gender) => In(cl(i).gender, gender)}
        mult == [i \in sel |->
                   IF Truthy(subworld)
                   THEN SubworldMatches(cl(i), subworld) ELSE 1]
        key == [i \in sel |-> <<i>>]
        rows == JoinRows(OrderBy(sel, key), mult)
    IN  [i \in 1..Len(rows) |-> st.tmodel[rows[i]].id]

\* Database.tmodels
tmodels(s, st, protocol_, groups_, subworld, gender) ==
    Then(assert_validity(s), LAMBDA u :
    Then(protocol_names(s, st), LAMBDA VALID_PROTOCOLS :
    Then(subworld_names(s, st), LAMBDA VALID_SUBWORLDS :
    Then(__check_validity__(protocol_, "protocol", VALID_PROTOCOLS, Scalar("")),
         LAMBDA p :
    Then(__check_validity__(groups_, "group", <<"dev", "eval">>, Scalar("")),
         LAMBDA g :
    Then(__check_validity__(Default(subworld, Scalar("onethird")), "subworld",
                            VALID_SUBWORLDS, Scalar("")),
         LAMBDA sw :
    Then(__check_validity__(gender, "gender", genders, Scalar("")), LAMBDA ge :
    Then(query(s, tmodels_q(st, sw, ge)),
         LAMBDA rows : Ok(list_q(rows), 0)))))))))

\* Database.get_client_id_from_model_id
get_client_id_from_model_id(model_id) == model_id


-----------------------------------------------------------------------------
(* File and object selection *)

\* order_by(File.client_id, File.session_id, File.speech_type, File.shot_id,
\*          File.device)
FileKey(f) == <<f.client_id, f.session_id, f.speech_type, f.shot_id, f.device>>

\* the ids of the File rows sel of a joined query, in order, once per match
FileRowsOf(st, sel, mult) ==
    LET key == [i \in sel |-> FileKey(st.file[i])]
        rows == JoinRows(OrderBy(sel, key), mult)
    IN  [i \in 1..Len(rows) |-> st.file[rows[i]].id]

\* model_ids as objects normalises it: None is (), a scalar is wrapped
objects_model_ids(model_ids) ==
    CASE model_ids.t = "none" -> Tuple(<<>>)
      [] model_ids.t = "scalar" -> Tuple(model_ids.v)
      [] OTHER -> model_ids

\* a mutant of world_files: the branch is taken for groups 'world' alone
world_files_alone(s, st, groups_, subworld, gender, model_ids) ==
    IF groups_.v # <<"world">> THEN Ok(<<>>, 0)
    ELSE LET sel == {i \in DOMAIN st.file :
                       /\ st.client[st.file[i].client_id].sgroup = "world"
                       /\ Truthy(gender) =>
                            In(st.client[st.file[i].client_id].gender, gender)
                       /\ Truthy(model_ids) => In(st.file[i].client_id, model_ids)}
             mult == [i \in sel |->
                        IF Truthy(subworld)
                        THEN SubworldMatches(st.file[i], subworld) ELSE 1]
         IN  Then(query(s, FileRowsOf(st, sel, mult)),
                  LAMBDA rows : Ok(list_q(rows), 0))

\* objects, the 'world' branch: what it adds to retval
world_files(s, st, groups_, subworld, gender, model_ids) ==
    IF ~In("world", groups_) THEN Ok(<<>>, 0)
    ELSE LET sel == {i \in DOMAIN st.file :
                       /\ st.client[st.file[i].client_id].sgroup = "world"
                       /\ Truthy(gender) =>
                            In(st.client[st.file[i].client_id].gender, gender)
                       /\ Truthy(model_ids) => In(st.file[i].client_id, model_ids)}
             mult == [i \in sel |->
                        IF Truthy(subworld)
                        THEN SubworldMatches(st.file[i], subworld) ELSE 1]
         IN  Then(query(s, FileRowsOf(st, sel, mult)),
                  LAMBDA rows : Ok(list_q(rows), 0))

\* the number of ProtocolPurpose (and Protocol) rows File row f joins to under
\* and_(Protocol.name.in_(protocol), ProtocolPurpose.sgroup.in_(groups),
\*      ProtocolPurpose.purpose == purpose)
PurposeMatches(st, f, protocol_, groups_, purpose) ==
    Cardinality({k \in f.protocol_purposes :
                   /\ In(st.protocolpurpose[k].protocol, protocol_)
                   /\ In(st.protocolpurpose[k].sgroup, groups_)
                   /\ st.protocolpurpose[k].purpose = purpose})

\* objects, the 'enrol' branch and the 'probe'/'client' branch: the Files of
\* the given purpose, restricted to the clients of model_ids
purpose_files(s, st, protocol_, groups_, purpose, gender, model_ids) ==
    LET sel == {i \in DOMAIN st.file :
                  /\ Truthy(gender) =>
                       In(st.client[st.file[i].client_id].gender, gender)
                  /\ Truthy(model_ids) => In(st.file[i].client_id, model_ids)}
        mult == [i \in sel |->
                   PurposeMatches(st, st.file[i], protocol_, groups_, purpose)]
    IN  Then(query(s, FileRowsOf(st, sel, mult)),
             LAMBDA rows : Ok(list_q(rows), 0))

\* a mutant of impostor_files: the clients of model_ids are excluded
\* whenever model_ids is given
impostor_files_any(s, st, protocol_, groups_, gender, model_ids) ==
    LET sel == {i \in DOMAIN st.file :
                  /\ Truthy(gender) =>
                       In(st.client[st.file[i].client_id].gender, gender)
                  /\ Len(model_ids.v) >= 1 =>
                       ~In(st.file[i].client_id, model_ids)}
        mult == [i \in sel |->
                   PurposeMatches(st, st.file[i], protocol_, groups_, "probe")]
    IN  Then(query(s, FileRowsOf(st, sel, mult)),
             LAMBDA rows : Ok(list_q(rows), 0))

\* objects, the 'probe'/'impostor' branch
impostor_files(s, st, protocol_, groups_, gender, model_ids) ==
    LET sel == {i \in DOMAIN st.file :
                  /\ Truthy(gender) =>
                       In(st.client[st.file[i].client_id].gender, gender)
                  /\ Len(model_ids.v) = 1 =>
                       ~In(st.file[i].client_id, model_ids)}
        mult == [i \in sel |->
                   PurposeMatches(st, st.file[i], protocol_, groups_, "probe")]
    IN  Then(query(s, FileRowsOf(st, sel, mult)),
             LAMBDA rows : Ok(list_q(rows), 0))

\* the enumerations of a set, each element once
Enumerations(S) ==
    {f \in [1..Cardinality(S) -> S] : \A i, j \in DOMAIN f : f[i] = f[j] => i = j}

\* a mutant of list_set: retval is returned as it is
list_retval(retval) == {retval}

\* list(set(retval)): the Files of retval, each once (a File row is one
\* object of the session however many queries return it), in any order
list_set(retval) == Enumerations(Range(retval))

\* the outcomes r can be, its value being any of the lists F makes of it
AnyOf(r, F(_)) ==
    IF r.st # "ok" THEN {r} ELSE {Ok(l, r.nq) : l \in F(r.val)}

\* Database.objects, after validation: the queries and their union
objects_retval(s, st, protocol_, purposes_, model_ids, groups_, classes, subworld, gender) ==
    Then(world_files(s, st, groups_, subworld, gender, model_ids), LAMBDA w :
    Then(IF (In("dev", groups_) \/ In("eval", groups_)) /\ In("enrol", purposes_)
         THEN purpose_files(s, st, protocol_, groups_, "enrol", gender, model_ids)
         ELSE Ok(<<>>, 0), LAMBDA e :
    Then(IF /\ In("dev", groups_) \/ In("eval", groups_)
            /\ In("probe", purposes_)
            /\ In("client", classes)
         THEN purpose_files(s, st, protocol_, groups_, "probe", gender, model_ids)
         ELSE Ok(<<>>, 0), LAMBDA c :
    Then(IF /\ In("dev", groups_) \/ In("eval", groups_)
            /\ In("probe", purposes_)
            /\ In("impostor", classes)
         THEN impostor_files(s, st, protocol_, groups_, gender, model_ids)
         ELSE Ok(<<>>, 0), LAMBDA i :
    Ok(w \o e \o c \o i, 0)))))

\* Database.objects: the outcomes the call can have (the order of the
\* returned list is that of a set's iteration)
objects(s, st, protocol_, purposes_, model_ids, groups_, classes, subworld, gender) ==
    AnyOf(
    Then(assert_validity(s), LAMBDA u :
    Then(protocol_names(s, st), LAMBDA VALID_PROTOCOLS :
    Then(subworld_names(s, st), LAMBDA VALID_SUBWORLDS :
    Then(__check_validity__(protocol_, "protocol", VALID_PROTOCOLS,
                            Tuple(VALID_PROTOCOLS)), LAMBDA p :
    Then(__check_validity__(purposes_, "purpose", purposes, Tuple(purposes)),
         LAMBDA pu :
    Then(__check_validity__(groups_, "group", groups, Tuple(groups)), LAMBDA g :
    Then(__check_validity__(classes, "class", <<"client", "impostor">>,
                            Tuple(<<"client", "impostor">>)), LAMBDA c :
    Then(__check_validity__(subworld, "subworld", VALID_SUBWORLDS, Scalar("")),
         LAMBDA sw :
    Then(__check_validity__(gender, "gender", genders, Scalar("")), LAMBDA ge :
    objects_retval(s, st, p, pu, objects_model_ids(model_ids), g, c, sw, ge)
    ))))))))),
    list_set)

\* model_ids as tobjects normalises it: None is (), a string is wrapped
tobjects_model_ids(model_ids) ==
    CASE model_ids.t = "none" -> Tuple(<<>>)
      [] model_ids.t = "scalar" -> Tuple(model_ids.v)
      [] OTHER -> model_ids

\* the query Database.tobjects builds from its validated arguments
tobjects_q(st, model_ids, subworld, gender) ==
    LET sel == {i \in DOMAIN st.file :
                  Truthy(gender) =>
                    In(st.client[st.file[i].client_id].gender, gender)}
        mult == [i \in sel |->
                   (IF Truthy(subworld)
                    THEN SubworldMatches(st.file[i], subworld) ELSE 1)
                   * Cardinality({t \in st.file[i].tmodels :
                                    Truthy(model_ids) => In(t, model_ids)})]
    IN  FileRowsOf(st, sel, mult)

\* Database.tobjects
tobjects(s, st, protocol_, model_ids, groups_, subworld, gender) ==
    Then(assert_validity(s), LAMBDA u :
    Then(protocol_names(s, st), LAMBDA VALID_PROTOCOLS :
    Then(subworld_names(s, st), LAMBDA VALID_SUBWORLDS :
    Then(__check_validity__(protocol_, "protocol", VALID_PROTOCOLS,
                            Tuple(VALID_PROTOCOLS)), LAMBDA p :
    Then(__check_validity__(groups_, "group", <<"dev", "eval">>, Scalar("")),
         LAMBDA g :
    Then(__check_validity__(Default(subworld, Scalar("onethird")), "subworld",
                            VALID_SUBWORLDS, Scalar("")),
         LAMBDA sw :
    Then(__check_validity__(gender, "gender", genders, Scalar("")), LAMBDA ge :
    Then(query(s, tobjects_q(st, tobjects_model_ids(model_ids), sw, ge)),
         LAMBDA rows : Ok(list_q(rows), 0)))))))))

\* Database.zobjects
zobjects(s, st, protocol_, model_ids, groups_, subworld, gender) ==
    LET a == Then(assert_validity(s), LAMBDA u :
                  __check_validity__(groups_, "group", <<"dev", "eval">>,
                                     Scalar("")))
    IN  IF a.st # "ok" THEN {a}
        ELSE objects(s, st, protocol_, None, model_ids, Scalar("world"), None,
                     Default(subworld, Scalar("onethird")), gender)

-----------------------------------------------------------------------------
(* Path resolution *)

\* File.make_path: os.path.join(directory, path + extension)
make_path(f, prefix, suffix) ==
    IF prefix = <<>> THEN f.path \o suffix
    ELSE prefix \o <<"/">> \o f.path \o suffix

\* [F(k) for k in fobj if P(k)]
Comprehend(fobj, P(_), F(_)) ==
    LET sel == SelectSeq(fobj, P) IN [i \in 1..Len(sel) |-> F(sel[i])]

\* a mutant of paths_loop: one path per row of the query, in query order
paths_of_query(ids, fobj, prefix, suffix) ==
    [i \in 1..Len(fobj) |-> make_path(fobj[i], prefix, suffix)]

\* the loop of Database.paths over ids
RECURSIVE paths_loop(_, _, _, _)
paths_loop(ids, fobj, prefix, suffix) ==
    IF ids = <<>> THEN <<>>
    ELSE Comprehend(fobj, LAMBDA k : k.id = Head(ids),
                    LAMBDA k : make_path(k, prefix, suffix))
         \o paths_loop(Tail(ids), fobj, prefix, suffix)

\* Database.paths
paths(s, st, ids, prefix, suffix) ==
    Then(assert_validity(s), LAMBDA u :
    Then(query(s, SelectSeq(st.file, LAMBDA f : f.id \in Range(ids))),
         LAMBDA fobj : Ok(paths_loop(ids, fobj, prefix, suffix), 0)))

\* a local name that no statement has bound yet
Unbound == [bound |-> FALSE, v |-> <<>>]
Bound(x) == [bound |-> TRUE, v |-> x]

NameErrorMsg(name) ==
    [kind |-> "name", obj |-> name, value |-> "", valid |-> <<>>]

\* the loop of Database.reverse over paths and its return: retval is the
\* binding of the name retval, which the method never assigns
RECURSIVE reverse_loop(_, _, _)
reverse_loop(retval, paths_, fobj) ==
    IF ~retval.bound THEN Raise("NameError", NameErrorMsg("retval"), 0)
    ELSE IF paths_ = <<>> THEN Ok(retval.v, 0)
    ELSE reverse_loop(
           Bound(retval.v \o Comprehend(fobj, LAMBDA k : k.path = Head(paths_),
                                        LAMBDA k : k.id)),
           Tail(paths_), fobj)

\* Database.reverse
reverse(s, st, paths_) ==
    Then(assert_validity(s), LAMBDA u :
    Then(query(s, SelectSeq(st.file, LAMBDA f : f.path \in Range(paths_))),
         LAMBDA fobj : reverse_loop(Unbound, paths_, fobj)))


-----------------------------------------------------------------------------
(* The arguments the calls are made with: every combination of the valid  *)
(* selector values below, and the calls with one selector that is not      *)
(* valid.                                                                  *)

ProtocolArgs == {None, Scalar("male"), Tuple(<<"female", "male">>)}
GroupsArgs == {None, Scalar("world"), Scalar("dev"), Tuple(<<"dev", "eval">>)}
NormGroupsArgs == {None, Scalar("eval"), Tuple(<<"dev", "eval">>)}
PurposesArgs == {None, Scalar("enrol"), Scalar("probe")}
ClassesArgs == {None, Scalar("client"), Scalar("impostor")}
SubworldArgs == {None, Scalar("onethird"), Tuple(<<"onethird", "twothirds">>)}
GenderArgs == {None, Scalar("male"), Tuple(<<"female">>)}
InvalidArgs ==
    {Scalar("bogus"), Tuple(<<"male", "bogus">>), Tuple(<<"worse", "bogus">>)}
ModelIdsArgs ==
    {None, Scalar(3)} \cup {Tuple(m) : m \in SeqUpTo({1, 3}, MaxModelIds)}
TModelIdsArgs ==
    {None, Scalar("t1")} \cup {Tuple(m) : m \in SeqUpTo({"t1", "t2"}, MaxModelIds)}
\* __check_validity__ called on its own
ValidatedArgs ==
    {None, Scalar(""), Tuple(<<>>), Scalar("male"), Tuple(<<"male">>),
     Tuple(<<"female", "male">>), Tuple(<<"male", "male">>)} \cup InvalidArgs
CheckValidityArgs ==
    [l : ValidatedArgs, obj : {"gender"}, valid : {gender_choices, <<"male">>},
     default : {Scalar(""), Tuple(gender_choices)}]
NameArgs == {"onethird", "male", "bogus"}
ClientIdArgs == {1, 9}
\* the ids of the File rows and one id that no File has
FileIdArgs == SeqUpTo(1..(NFiles + 1), MaxIds)
PrefixArgs == {<<>>, <<"d">>}
SuffixArgs == {<<>>, <<".", "w">>}
StemArgs == SeqUpTo({StemOf(i) : i \in 1..(NFiles + 1)}, MaxIds)

\* the argument records of A with one selector, other than model_ids,
\* replaced by a value that is not valid
OneInvalid(A) ==
    {[a EXCEPT ![f] = x] : a \in A, f \in DOMAIN (CHOOSE r \in A : TRUE) \ {"model_ids"},
                           x \in InvalidArgs}

\* clients and models
ClientsValidArgs ==
    [protocol : ProtocolArgs, groups : GroupsArgs, subworld : SubworldArgs,
     gender : GenderArgs]
ClientsArgs ==
    ClientsValidArgs
    \cup OneInvalid({[protocol |-> None, groups |-> None, subworld |-> None,
                      gender |-> None]})

\* tclients, zclients and tmodels (subworld is 'onethird' when omitted);
\* 'world' is no valid group of theirs
NormValidArgs ==
    [protocol : ProtocolArgs, groups : NormGroupsArgs,
     subworld : SubworldArgs \cup {Omitted}, gender : GenderArgs]
NormArgs ==
    NormValidArgs
    \cup OneInvalid({[protocol |-> None, groups |-> None, subworld |-> Omitted,
                      gender |-> None]})
    \cup {[protocol |-> None, groups |-> Scalar("world"), subworld |-> Omitted,
           gender |-> None]}

ObjectsValidArgs ==
    [protocol : {None, Scalar("male")}, purposes : PurposesArgs,
     model_ids : ModelIdsArgs,
     groups : GroupsArgs,
     classes : ClassesArgs,
     subworld : {None, Tuple(<<"onethird", "twothirds">>)},
     gender : {None, Scalar("male")}]
ObjectsArgs ==
    ObjectsValidArgs
    \cup OneInvalid({[protocol |-> None, purposes |-> None, model_ids |-> None,
                      groups |-> None, classes |-> None, subworld |-> None,
                      gender |-> None]})

TObjectsValidArgs ==
    [protocol : {None, Scalar("male")}, model_ids : TModelIdsArgs,
     groups : NormGroupsArgs, subworld : SubworldArgs \cup {Omitted},
     gender : {None, Scalar("male")}]
TObjectsArgs ==
    TObjectsValidArgs
    \cup OneInvalid({[protocol |-> None, model_ids |-> None, groups |-> None,
                      subworld |-> Omitted, gender |-> None]})

ZObjectsValidArgs ==
    [protocol : {None, Scalar("male")}, model_ids : ModelIdsArgs,
     groups : NormGroupsArgs,
     subworld : {Omitted, None, Tuple(<<"onethird", "twothirds">>)},
     gender : {None, Scalar("male")}]
ZObjectsArgs ==
    ZObjectsValidArgs
    \cup OneInvalid({[protocol |-> None, model_ids |-> None, groups |-> None,
                      subworld |-> Omitted, gender |-> None]})

-----------------------------------------------------------------------------
(* The state machine: a Database object, the storage artifact it opens,    *)
(* and the call its (single-threaded) caller last made.                    *)

\* no artifact has been opened: there are no tables to read
NoStore ==
    [subworld |-> <<>>, protocol |-> <<>>, protocolpurpose |-> <<>>,
     client |-> <<>>, tmodel |-> <<>>, file |-> <<>>]

NoArgs == [none |-> TRUE]
Idle == [op |-> "idle", args |-> NoArgs, result |-> Ok(<<>>, 0)]

\* Database.__init__ and Database.connect: the session opened on the artifact
\* (whose tables are what the session then reads), or None without it
Init ==
    /\ artifact \in BOOLEAN
    /\ call = Idle
    /\ IF artifact
       THEN session = OpenSession /\ store \in Stores
       ELSE session = NoSession /\ store = NoStore

\* Database.connect
connect ==
    /\ call = Idle
    /\ IF ~artifact
       THEN session' = NoSession /\ store' = NoStore
       ELSE /\ session' = OpenSession
            /\ IF store = NoStore THEN store' \in Stores ELSE store' = store
    /\ UNCHANGED <<artifact, call>>

\* the environment: the storage artifact is created
ArtifactCreated ==
    /\ call = Idle
    /\ ~artifact
    /\ artifact' = TRUE
    /\ UNCHANGED <<session, store, call>>

\* a mutant of Call: a call made while the artifact exists opens the session
Call_reopening(op, args, r) ==
    /\ call' = [op |-> op, args |-> args, result |-> r]
    /\ session' = IF artifact THEN OpenSession ELSE session
    /\ IF artifact /\ store = NoStore THEN store' \in Stores ELSE store' = store
    /\ UNCHANGED artifact

\* the caller makes the call op(args), which ends as r; no method other than
\* connect assigns self.session, and every query is a read
Call(op, args, r) ==
    /\ call' = [op |-> op, args |-> args, result |-> r]
    /\ UNCHANGED <<artifact, session, store>>

\* the caller has taken the result of its call
Return ==
    /\ call # Idle
    /\ call' = Idle
    /\ UNCHANGED <<artifact, session, store>>

CallCheckValidity ==
    /\ call = Idle
    /\ \E a \in CheckValidityArgs :
           Call("__check_validity__", a,
                __check_validity__(a.l, a.obj, a.valid, a.default))

CallSubworlds ==
    /\ call = Idle
    /\ Call("subworlds", NoArgs, subworlds(session, store))

CallSubworldNames ==
    /\ call = Idle
    /\ Call("subworld_names", NoArgs, subworld_names(session, store))

CallHasSubworld ==
    /\ call = Idle
    /\ \E name \in NameArgs :
           Call("has_subworld", [name |-> name], has_subworld(session, store, name))

CallProtocols ==
    /\ call = Idle
    /\ Call("protocols", NoArgs, protocols(session, store))

CallProtocolNames ==
    /\ call = Idle
    /\ Call("protocol_names", NoArgs, protocol_names(session, store))

CallHasProtocol ==
    /\ call = Idle
    /\ \E name \in NameArgs :
           Call("has_protocol", [name |-> name], has_protocol(session, store, name))

CallProtocol ==
    /\ call = Idle
    /\ \E name \in NameArgs :
           Call("protocol", [name |-> name], protocol(session, store, name))

CallProtocolPurposes ==
    /\ call = Idle
    /\ Call("protocol_purposes", NoArgs, protocol_purposes(session, store))

CallHasClientId ==
    /\ call = Idle
    /\ \E id \in ClientIdArgs :
           Call("has_client_id", [id |-> id], has_client_id(session, store, id))

CallClient ==
    /\ call = Idle
    /\ \E id \in ClientIdArgs :
           Call("client", [id |-> id], client(session, store, id))

CallClients ==
    /\ call = Idle
    /\ \E a \in ClientsArgs :
           Call("clients", a,
                clients(session, store, a.protocol, a.groups, a.subworld, a.gender))

CallModels ==
    /\ call = Idle
    /\ \E a \in ClientsArgs :
           Call("models", a,
                models(session, store, a.protocol, a.groups, a.subworld, a.gender))

CallTClients ==
    /\ call = Idle
    /\ \E a \in NormArgs :
           Call("tclients", a,
                tclients(session, store, a.protocol, a.groups, a.subworld, a.gender))

CallZClients ==
    /\ call = Idle
    /\ \E a \in NormArgs :
           Call("zclients", a,
                zclients(session, store, a.protocol, a.groups, a.subworld, a.gender))

CallTModels ==
    /\ call = Idle
    /\ \E a \in NormArgs :
           Call("tmodels", a,
                tmodels(session, store, a.protocol, a.groups, a.subworld, a.gender))

CallObjects ==
    /\ call = Idle
    /\ \E a \in ObjectsArgs :
           \E r \in objects(session, store, a.protocol, a.purposes, a.model_ids,
                            a.groups, a.classes, a.subworld, a.gender) :
               Call("objects", a, r)

CallTObjects ==
    /\ call = Idle
    /\ \E a \in TObjectsArgs :
           Call("tobjects", a,
                tobjects(session, store, a.protocol, a.model_ids, a.groups,
                         a.subworld, a.gender))

CallZObjects ==
    /\ call = Idle
    /\ \E a \in ZObjectsArgs :
           \E r \in zobjects(session, store, a.protocol, a.model_ids, a.groups,
                             a.subworld, a.gender) :
               Call("zobjects", a, r)

CallPaths ==
    /\ call = Idle
    /\ \E ids \in FileIdArgs, prefix \in PrefixArgs, suffix \in SuffixArgs :
           Call("paths", [ids |-> ids, prefix |-> prefix, suffix |-> suffix],
                paths(session, store, ids, prefix, suffix))

CallReverse ==
    /\ call = Idle
    /\ \E ps \in StemArgs :
           Call("reverse", [paths |-> ps], reverse(session, store, ps))

Next ==
    \/ connect
    \/ ArtifactCreated
    \/ Return
    \/ CallCheckValidity
    \/ CallSubworlds
    \/ CallSubworldNames
    \/ CallHasSubworld
    \/ CallProtocols
    \/ CallProtocolNames
    \/ CallHasProtocol
    \/ CallProtocol
    \/ CallProtocolPurposes
    \/ CallHasClientId
    \/ CallClient
    \/ CallClients
    \/ CallModels
    \/ CallTClients
    \/ CallZClients
    \/ CallTModels
    \/ CallObjects
    \/ CallTObjects
    \/ CallZObjects
    \/ CallPaths
    \/ CallReverse

Spec == Init /\ [][Next]_vars


-----------------------------------------------------------------------------
(* Properties *)

Returned(op) == call.op = op /\ call.result.st = "ok"

NoDuplicates(l) == \A i, j \in 1..Len(l) : l[i] = l[j] => i = j

\* the values of a supplied selector
Values(a) == Range(a.v)

\* a selector value that validation against the set valid must reject
Rejected(a, valid) == Truthy(a) /\ \E x \in Values(a) : x \notin valid

FileOf(id) == CHOOSE f \in Range(store.file) : f.id = id
ClientOf(id) == CHOOSE c \in Range(store.client) : c.id = id

\* C1: the list objects returns holds each File at most once, whatever the
\* arguments and however many of its queries return the File
C1_ObjectsNoDuplicates ==
    Returned("objects") => NoDuplicates(call.result.val)

\* objects has returned a File that its enrol, probe/client and
\* probe/impostor queries all return
C1_Witness ==
    /\ Returned("objects")
    /\ call.args.purposes = None /\ call.args.classes = None
    /\ call.args.groups = None /\ call.args.model_ids = None
    /\ \E i \in 1..Len(call.result.val) :
           FileOf(call.result.val[i]).protocol_purposes = {5, 6}

\* C2: objects(purposes='probe', classes='impostor') on dev/eval groups
\* returns no File of client m when model_ids is the one id m, and with two
\* or more model ids returns the Files of the call without model_ids
C2_ImpostorExclusionSingleton ==
    ( /\ Returned("objects")
      /\ call.args.purposes = Scalar("probe")
      /\ call.args.classes = Scalar("impostor")
      /\ call.args.groups \in {Scalar("dev"), Scalar("eval"), Tuple(<<"dev", "eval">>)} )
    => /\ Len(call.args.model_ids.v) = 1 =>
            \A i \in 1..Len(call.result.val) :
                FileOf(call.result.val[i]).client_id # call.args.model_ids.v[1]
       /\ Len(call.args.model_ids.v) >= 2 =>
            \A r \in objects(session, store, call.args.protocol, call.args.purposes,
                             None, call.args.groups, call.args.classes,
                             call.args.subworld, call.args.gender) :
                r.st = "ok" /\ Range(r.val) = Range(call.result.val)

\* the impostor query was made for the one model 3 on a store with probe
\* Files of client 3 and of client 5, and returned the one of client 5
C2_Witness ==
    /\ Returned("objects")
    /\ call.args.purposes = Scalar("probe")
    /\ call.args.classes = Scalar("impostor")
    /\ call.args.groups = Scalar("dev")
    /\ call.args.model_ids = Tuple(<<3>>)
    /\ \E f \in Range(store.file) : f.client_id = 3 /\ 6 \in f.protocol_purposes
    /\ \E i \in 1..Len(call.result.val) : FileOf(call.result.val[i]).client_id = 5

\* the impostor query was made for two models and returned a File of one of
\* them
C2_TwoModelsReached ==
    /\ Returned("objects")
    /\ call.args.purposes = Scalar("probe")
    /\ call.args.classes = Scalar("impostor")
    /\ call.args.groups = Scalar("dev")
    /\ Len(call.args.model_ids.v) = 2
    /\ \E i \in 1..Len(call.result.val) :
           FileOf(call.result.val[i]).client_id \in Values(call.args.model_ids)

\* C3: with no session (session is None) every query-bearing method raises
\* the error of assert_validity, and no query has been issued
C3_DisconnectedRaisesUnavailable ==
    (call.op \notin {"idle", "__check_validity__"} /\ session = NoSession)
    => /\ call.result.st = "RuntimeError"
       /\ call.result.msg = UnavailableMsg
       /\ call.result.nq = 0

\* tclients, which does not call assert_validity itself, was called with no
\* session
C3_Witness ==
    /\ session = NoSession
    /\ call.op = "tclients"
    /\ call.result.st = "RuntimeError"

\* C4: tclients and zclients return Clients of group 'world' only, the same
\* whatever groups is: those of clients(protocol, 'world', subworld, gender),
\* subworld being 'onethird' when it is omitted
C4_NormClientsAreWorldClients ==
    (Returned("tclients") \/ Returned("zclients"))
    => LET sw == IF call.args.subworld = Omitted THEN Scalar("onethird")
                 ELSE call.args.subworld
           ref == clients(session, store, call.args.protocol, Scalar("world"),
                          sw, call.args.gender)
       IN  /\ \A i \in 1..Len(call.result.val) :
                  ClientOf(call.result.val[i]).sgroup = "world"
           /\ ref.st = "ok" /\ call.result.val = ref.val
           /\ \A g \in {None, Scalar("dev"), Scalar("eval"), Tuple(<<"dev", "eval">>),
                        Tuple(<<"eval", "dev">>)} :
                  /\ tclients(session, store, call.args.protocol, g,
                              call.args.subworld, call.args.gender).val
                       = call.result.val
                  /\ zclients(session, store, call.args.protocol, g,
                              call.args.subworld, call.args.gender).val
                       = call.result.val

\* tclients was called for group 'eval' with subworld omitted and returned
\* the world client of subworld 'onethird'
C4_Witness ==
    /\ Returned("tclients")
    /\ call.args.groups = Scalar("eval")
    /\ call.args.subworld = Omitted
    /\ call.result.val = <<1>>


\* C5: __check_validity__ returns default when l is None or empty, the
\* sequence l when all its elements are valid, the one-element tuple (l,) for
\* a valid scalar l, and otherwise raises an error naming the first element
\* that is not valid, obj and the valid values; clients, tmodels, objects and
\* tobjects called with a selector value that is not valid raise that error
\* after their two name lookups, with no filtered query run
C5_ValidationBeforeQuery ==
    /\ call.op = "__check_validity__" =>
         LET a == call.args
             r == call.result
             bad == {i \in 1..Len(a.l.v) : a.l.v[i] \notin Range(a.valid)}
         IN  /\ ~Truthy(a.l) => r.st = "ok" /\ r.val = a.default
             /\ Truthy(a.l) /\ bad = {} /\ a.l.t = "seq" =>
                  r.st = "ok" /\ r.val = a.l
             /\ Truthy(a.l) /\ bad = {} /\ a.l.t = "scalar" =>
                  r.st = "ok" /\ r.val = Tuple(<<a.l.v[1]>>)
             /\ Truthy(a.l) /\ bad # {} =>
                  /\ r.st = "RuntimeError"
                  /\ r.msg.kind = "invalid"
                  /\ r.msg.obj = a.obj
                  /\ r.msg.valid = a.valid
                  /\ \E i \in bad : (\A j \in bad : i <= j) /\ r.msg.value = a.l.v[i]
    /\ ( /\ call.op \in {"clients", "tmodels", "objects", "tobjects"}
         /\ session # NoSession
         /\ LET a == call.args
                normgroups == call.op \in {"tmodels", "tobjects"}
            IN  \/ Rejected(a.protocol, {"female", "male"})
                \/ Rejected(a.groups, IF normgroups THEN {"dev", "eval"}
                                      ELSE {"world", "dev", "eval"})
                \/ Rejected(a.subworld,
                            {"onethird", "twothirds", "twothirds-subsampled"})
                \/ Rejected(a.gender, {"female", "male"})
                \/ call.op = "objects" /\ Rejected(a.purposes, {"enrol", "probe"})
                \/ call.op = "objects" /\ Rejected(a.classes, {"client", "impostor"}) )
       => /\ call.result.st = "RuntimeError"
          /\ call.result.msg.kind = "invalid"
          /\ call.result.nq = 2

\* objects was called with the genders ('male', 'bogus') and raised the
\* error naming 'bogus', the gender axis and the valid genders
C5_Witness ==
    /\ call.op = "objects"
    /\ session # NoSession
    /\ call.args.gender = Tuple(<<"male", "bogus">>)
    /\ call.result.st = "RuntimeError"
    /\ call.result.msg = InvalidMsg("gender", "bogus", <<"female", "male">>)
    /\ call.result.nq = 2

\* __check_validity__ was called with two values that are not valid and
\* raised the error naming the first
C5_FirstInvalidReached ==
    /\ call.op = "__check_validity__"
    /\ call.args.l = Tuple(<<"worse", "bogus">>)
    /\ call.result.msg.value = "worse"

\* C6: paths returns one path per occurrence in ids of the id of a File, in
\* the order of ids; an id of no File adds nothing
C6_PathsFollowInputOrder ==
    Returned("paths") =>
        LET a == call.args
            hits == SelectSeq(a.ids, LAMBDA p : \E f \in Range(store.file) : f.id = p)
        IN  call.result.val =
                [i \in 1..Len(hits) |-> make_path(FileOf(hits[i]), a.prefix, a.suffix)]

\* paths([1, n, 1]), n the id of no File, returned the path of File 1 twice
C6_Witness ==
    /\ Returned("paths")
    /\ call.args.ids = <<1, NFiles + 1, 1>>
    /\ call.args.prefix = <<"d">>
    /\ call.result.val = << <<"d", "/">> \o StemOf(1) \o call.args.suffix,
                            <<"d", "/">> \o StemOf(1) \o call.args.suffix >>

\* C7: with a session open, reverse returns the ids of the Files whose stem
\* is one of the queried stems, stem by stem
C7_ReverseReturnsIds ==
    (call.op = "reverse" /\ session # NoSession) =>
        LET hits == SelectSeq(call.args.paths,
                              LAMBDA p : \E f \in Range(store.file) : f.path = p)
        IN  /\ call.result.st = "ok"
            /\ call.result.val =
                   [i \in 1..Len(hits) |->
                       (CHOOSE f \in Range(store.file) : f.path = hits[i]).id]

\* C8: the Files of objects(groups='world') are among those of the same call
\* with groups omitted
C8_WorldSubsetOfDefaultGroups ==
    (Returned("objects") /\ call.args.groups = Scalar("world")) =>
        \A r \in objects(session, store, call.args.protocol, call.args.purposes,
                         call.args.model_ids, None, call.args.classes,
                         call.args.subworld, call.args.gender) :
            r.st = "ok" /\ Range(call.result.val) \subseteq Range(r.val)

\* objects(groups='world') returned a File
C8_Witness ==
    /\ Returned("objects")
    /\ call.args.groups = Scalar("world")
    /\ call.result.val # <<>>

C10_TObjectsNoDuplicates ==
    Returned("tobjects") =>
        LET a == call.args
            sw == IF a.subworld = Omitted THEN Scalar("onethird") ELSE a.subworld
            selected ==
                {f \in Range(store.file) :
                   /\ Truthy(sw) => f.subworld \cap Values(sw) # {}
                   /\ IF Truthy(a.model_ids)
                      THEN f.tmodels \cap Values(a.model_ids) # {}
                      ELSE f.tmodels # {}
                   /\ Truthy(a.gender) =>
                        ClientOf(f.client_id).gender \in Values(a.gender)}
        IN  /\ NoDuplicates(call.result.val)
            /\ Range(call.result.val) = {f.id : f \in selected}

\* tobjects was called for the two TModels that share File 1, and returned it
C10_Witness ==
    /\ Returned("tobjects")
    /\ call.args.model_ids = Tuple(<<"t1", "t2">>)
    /\ FileOf(1).tmodels = {"t1", "t2"}
    /\ call.result.val = <<1>>

\* C11: a Database constructed without the storage artifact exists with no
\* valid session; the session and the store it reads change only in a
\* connect() made between calls, which leaves the session valid exactly when
\* the artifact exists; a call made with no session raises the error of
\* assert_validity without a query and leaves the session invalid, also
\* after the artifact has appeared
C11_ConnectionLifecycle ==
    /\ (~artifact => ~is_valid(session))
    /\ [][/\ (session' # session \/ store' # store)
              => /\ call = Idle /\ call' = Idle
                 /\ artifact' = artifact
                 /\ is_valid(session') = artifact
          /\ (call' # call /\ call'.op \notin {"idle", "__check_validity__"}
                /\ ~is_valid(session))
              => /\ call'.result.st = "RuntimeError"
                 /\ call'.result.msg = UnavailableMsg
                 /\ call'.result.nq = 0
                 /\ ~is_valid(session')]_vars

\* the artifact has appeared since the construction, connect() has not been
\* called, and objects was called
C11_Witness ==
    /\ artifact
    /\ ~is_valid(session)
    /\ call.op = "objects"
    /\ call.result.msg = UnavailableMsg

=============================================================================
